---- MODULE Spec2Model ----
(***************************************************************************)
(* Download-access-token system of the digital-downloads app:              *)
(*   - the Signer (generateDownloadToken / verifyDownloadToken),           *)
(*   - the Token Store (DynamoDBDownloadTokenRepo),                        *)
(*   - the Issuer (OrderFullyPaidUseCase.execute),                         *)
(*   - the Redemption Gate (GET /api/downloads/[token]).                   *)
(*                                                                         *)
(* Strings that end up in a token payload are modelled as the sequence of  *)
(* their ':'-separated fields, so that joining with ':' is concatenation   *)
(* of field lists and split(":") is the identity on the representation.    *)
(* An optional value is <<>> (undefined) or <<v>>.                         *)
(***************************************************************************)
EXTENDS Integers, Sequences, FiniteSets, TLC

\* ------------------------------------------------------------------ bounds
MaxRequests == 2      \* redemption requests per behaviour, interleaved freely
MaxRedemptions == 3   \* redemption requests per behaviour, one after another
MaxTime == 2          \* clock ticks
MaxIssuerRuns == 1    \* paid-order events processed per behaviour
MaxReplays == 2       \* paid-order events per behaviour when events are re-delivered
MaxStoreCount == 2    \* downloadCount reached by direct calls on the repository
MaxDedupCalls == 3    \* requests that go through withRequestDeduplication
MaxDedupTicks == 11   \* half-TTL steps of the clock of the deduplication cache

Requests == 1..(IF MaxRequests > MaxRedemptions THEN MaxRequests ELSE MaxRedemptions)
Times == 0..MaxTime

\* ------------------------------------------------------- JavaScript values
Undefined == <<>>
Num(n) == <<n>>

Range(s) == {s[i] : i \in DOMAIN s}

\* Date.prototype.toISOString, split on ':' ("....T0h:00:00.000Z").
toISOString(t) == <<"2025-01-01T0" \o ToString(t), "00", "00.000Z">>

\* The clock values an ISO string of this model can denote.
IsoTimes == 0..(MaxTime + 2)

\* new Date(s).getTime(); NaN (here: <<>>) for undefined or unparsable input.
NewDate(s) ==
  IF \E t \in IsoTimes : toISOString(t) = s
  THEN Num(CHOOSE t \in IsoTimes : toISOString(t) = s)
  ELSE Undefined

\* a < b on Dates: false whenever either side is NaN.
DateLess(a, b) == a # Undefined /\ b # Undefined /\ a[1] < b[1]

\* ------------------------------------------------------------------ Signer
SECRET_KEY == "server-secret"

\* A segment of a token (the text between two '.'): its encoding, the key and
\* message it was computed from, its length in bytes, and which text it is:
\* alt 0 is the text the encoder writes, another alt is a text of the same
\* length that differs from it in one character.
Base64(fields) ==
  [enc |-> "base64", key |-> "", msg |-> fields, len |-> 4 * Len(fields), alt |-> 0]
HmacHex(key, fields) ==
  [enc |-> "hmac-hex", key |-> key, msg |-> fields, len |-> 64, alt |-> 0]

\* Buffer.from(segment, "base64").toString().split(":")
DecodeFields(seg) == IF seg.enc = "base64" THEN seg.msg ELSE <<"garbage">>

generateDownloadToken(orderId, fileUrl, expiresAt) ==
  LET payload == orderId \o fileUrl \o expiresAt
  IN  <<Base64(payload), HmacHex(SECRET_KEY, payload)>>

\* Variant: fileUrl is the second field alone, not every field up to the last.
parseDownloadTokenSecondField(token) ==
  IF token[1].len = 0 THEN <<>>
  ELSE LET parts == DecodeFields(token[1])
       IN  IF Len(parts) < 3 THEN <<>>
           ELSE <<[orderId |-> <<parts[1]>>, fileUrl |-> <<parts[2]>>,
                   expiresAt |-> <<parts[Len(parts)]>>]>>

\* null is <<>>; a parsed payload is <<[orderId, fileUrl, expiresAt]>>. Only the
\* first segment is read; fileUrl is every field between the first and the last.
parseDownloadToken(token) ==
  IF token[1].len = 0 THEN <<>>
  ELSE LET parts == DecodeFields(token[1])
       IN  IF Len(parts) < 3 THEN <<>>
           ELSE LET orderId == <<parts[1]>>
                    fileUrl == SubSeq(parts, 2, Len(parts) - 1)
                    expiresAt == <<parts[Len(parts)]>>
                IN  IF orderId = <<"">> \/ fileUrl = <<"">> \/ expiresAt = <<"">>
                    THEN <<>>
                    ELSE <<[orderId |-> orderId, fileUrl |-> fileUrl,
                            expiresAt |-> expiresAt]>>

\* Variant: the structure is validated but the signature is never compared.
verifyDownloadTokenFormatOnly(token) ==
  IF Len(token) # 2 THEN "InvalidFormat"
  ELSE IF token[1].len = 0 \/ token[2].len = 0 THEN "InvalidFormat"
  ELSE IF parseDownloadToken(token) = <<>> THEN "InvalidFormat"
  ELSE "ok"

\* crypto.timingSafeEqual: throws when the lengths differ.
timingSafeEqual(a, b) ==
  IF a.len # b.len THEN "throws" ELSE IF a = b THEN "true" ELSE "false"

verifyDownloadToken(token) ==
  IF Len(token) # 2 THEN "InvalidFormat"
  ELSE IF token[1].len = 0 \/ token[2].len = 0 THEN "InvalidFormat"
  ELSE LET parsed == parseDownloadToken(token)
       IN  IF parsed = <<>> THEN "InvalidFormat"
           ELSE LET payload == parsed[1]
                    payloadString == payload.orderId \o payload.fileUrl \o payload.expiresAt
                    cmp == timingSafeEqual(token[2], HmacHex(SECRET_KEY, payloadString))
                IN  IF cmp = "throws" THEN "InvalidFormat"
                    ELSE IF cmp = "false" THEN "InvalidSignature"
                    ELSE "ok"

\* ------------------------------------------------------------- Token Store
\* The persisted item: the grouping metadata of the domain token is not mapped.
mapDomainToDbModel(token) ==
  [token          |-> token.token,
   orderId        |-> token.orderId,
   customerEmail  |-> token.customerEmail,
   fileUrl        |-> token.fileUrl,
   expiresAt      |-> token.expiresAt,
   maxDownloads   |-> token.maxDownloads,
   downloadCount  |-> token.downloadCount,
   createdAt      |-> token.createdAt,
   lastAccessedAt |-> token.lastAccessedAt]

mapDbModelToDomain(dbModel) ==
  [token          |-> dbModel.token,
   orderId        |-> dbModel.orderId,
   customerEmail  |-> dbModel.customerEmail,
   fileUrl        |-> dbModel.fileUrl,
   expiresAt      |-> dbModel.expiresAt,
   maxDownloads   |-> dbModel.maxDownloads,
   downloadCount  |-> dbModel.downloadCount,
   createdAt      |-> dbModel.createdAt,
   lastAccessedAt |-> dbModel.lastAccessedAt]

\* PutCommand: upsert keyed by the token string.
save(table, token) ==
  [k \in DOMAIN table \cup {token.token} |->
     IF k = token.token THEN mapDomainToDbModel(token) ELSE table[k]]

\* GetCommand: <<>> when there is no Item (NotFoundError).
getByToken(table, token) ==
  IF token \in DOMAIN table THEN <<mapDbModelToDomain(table[token])>> ELSE <<>>

\* Variant: "SET downloadCount = :inc", the counter is overwritten, not added to.
UpdateExpressionOverwrite(item, timestamp) ==
  [item EXCEPT !.downloadCount = 1, !.lastAccessedAt = timestamp]

\* "SET downloadCount = downloadCount + :inc, lastAccessedAt = :timestamp",
\* applied by the table to the item in one step; there is no ConditionExpression.
UpdateExpression(item, timestamp) ==
  [item EXCEPT !.downloadCount = @ + 1, !.lastAccessedAt = timestamp]

\* UpdateCommand on the item of the key. An item that does not exist has no
\* downloadCount to add to: the table rejects the expression and nothing is written.
incrementDownloadCount(table, token, timestamp) ==
  IF token \in DOMAIN table
  THEN [table EXCEPT ![token] = UpdateExpression(@, timestamp)]
  ELSE table

\* The Result incrementDownloadCount returns when the UpdateCommand was sent:
\* ok(item) with the attributes after the update; for a key with no item the
\* table throws (downloadCount is not an attribute it can add to) and the
\* catch returns UpdateError.
incrementDownloadCountResult(table, token, timestamp) ==
  IF token \in DOMAIN table
  THEN [result |-> "ok",
        value  |-> {mapDbModelToDomain(UpdateExpression(table[token], timestamp))}]
  ELSE [result |-> "UpdateError", value |-> {}]

\* DeleteCommand.
delete(table, token) == [k \in DOMAIN table \ {token} |-> table[k]]

\* What the QueryCommand on the OrderIndex does: it answers, it throws a
\* ValidationException (the table has no such index), or it throws another
\* error (the index or the table cannot be reached).
QueryFailures == {"none", "ValidationException", "other"}

\* The Items of the query: the items of the order.
QueryItems(table, orderId) ==
  {mapDbModelToDomain(table[k]) : k \in {j \in DOMAIN table : table[j].orderId = orderId}}

\* DynamoDBDownloadTokenRepo.listByOrder: every exception becomes FetchError.
listByOrder(table, orderId, failure) ==
  IF failure = "none"
  THEN [result |-> "ok", value |-> QueryItems(table, orderId)]
  ELSE [result |-> "FetchError", value |-> {}]

\* DownloadTokenFetcher.fetchDownloadTokensByOrderId: a ValidationException
\* is answered with an empty list, any other exception with an error.
fetchDownloadTokensByOrderId(table, orderId, failure) ==
  IF failure = "none"
  THEN [result |-> "ok", value |-> QueryItems(table, orderId)]
  ELSE IF failure = "ValidationException"
  THEN [result |-> "ok", value |-> {}]
  ELSE [result |-> "DownloadTokenFetcherError", value |-> {}]

\* ------------------------------------------------------ HttpsEnforcingAPL
\* A URL is its scheme followed by the rest, as ':'-free fields.
\* saleorApiUrl.replace(/^http:\/\//, "https://")
ToHttps(url) == IF url[1] = "http" THEN <<"https">> \o Tail(url) ELSE url

\* saleorApiUrl.replace(/^https:\/\//, "http://")
ToHttp(url) == IF url[1] = "https" THEN <<"http">> \o Tail(url) ELSE url

enforceHttps(authData) == [authData EXCEPT !.saleorApiUrl = ToHttps(@)]

\* The base APL: auth data kept by saleorApiUrl; <<>> is undefined.
BaseGet(base, url) == IF url \in DOMAIN base THEN <<base[url]>> ELSE <<>>

BaseSet(base, authData) ==
  [u \in DOMAIN base \cup {authData.saleorApiUrl} |->
     IF u = authData.saleorApiUrl THEN authData ELSE base[u]]

BaseDelete(base, url) == [u \in DOMAIN base \ {url} |-> base[u]]

\* HttpsEnforcingAPL.get: the https URL, then the http URL, then the URL as given.
AplGetResult(base, saleorApiUrl) ==
  LET first  == BaseGet(base, ToHttps(saleorApiUrl))
      second == IF first # <<>> THEN first ELSE BaseGet(base, ToHttp(saleorApiUrl))
      third  == IF second # <<>> THEN second ELSE BaseGet(base, saleorApiUrl)
  IN  IF third # <<>> THEN <<enforceHttps(third[1])>> ELSE <<>>

\* HttpsEnforcingAPL.set
AplSetResult(base, authData) == BaseSet(base, enforceHttps(authData))

\* HttpsEnforcingAPL.delete: the https URL and the URL as given.
AplDeleteResult(base, saleorApiUrl) ==
  BaseDelete(BaseDelete(base, ToHttps(saleorApiUrl)), saleorApiUrl)

\* --------------------------------------------------- request deduplication
CACHE_TTL == 60000
CLEANUP_INTERVAL == 300000

DedupCalls == 1..MaxDedupCalls

\* Webhook payloads: ids are sequences of ':'-free fields, <<>> when missing.
DedupPayloads ==
  { [sourceObjectId |-> <<"co1">>, transactionId |-> <<"tx1">>, amount |-> 10,
     actionType |-> "CHARGE"],
    [sourceObjectId |-> <<"co1">>, transactionId |-> <<"tx2">>, amount |-> 10,
     actionType |-> "CHARGE"],
    [sourceObjectId |-> <<"co1">>, transactionId |-> <<>>, amount |-> 10,
     actionType |-> "CHARGE"] }

\* `${sourceObjectId}:${transactionId}:${amount}:${actionType}`
deduplicationKey(payload) ==
  payload.sourceObjectId \o payload.transactionId
    \o <<ToString(payload.amount)>> \o <<payload.actionType>>

\* requestCache.set(key, entry) and requestCache.delete(key).
CacheSet(cache, key, entry) ==
  [k \in DOMAIN cache \cup {key} |-> IF k = key THEN entry ELSE cache[k]]

CacheDelete(cache, key) == [k \in DOMAIN cache \ {key} |-> cache[k]]

\* The setInterval callback: every entry older than CACHE_TTL is deleted.
CleanedUp(cache, now) ==
  [k \in {j \in DOMAIN cache : ~(now - cache[j].timestamp > CACHE_TTL)} |-> cache[k]]

\* else if (now - existingRequest.timestamp < CACHE_TTL)
RecentlyProcessed(entry, now) ==
  ~entry.processing /\ now - entry.timestamp < CACHE_TTL

\* ------------------------------------------------- order-downloads endpoint
\* String.prototype.toLowerCase, on the letters that occur in the addresses.
toLowerCase(s) ==
  [i \in DOMAIN s |-> IF s[i] = "A" THEN "a" ELSE IF s[i] = "B" THEN "b" ELSE s[i]]

\* Variant: the addresses are compared as they are.
customerTokensCaseSensitive(tokens, customerEmail) ==
  {t \in tokens : t.customerEmail # <<>> /\ t.customerEmail[1] = customerEmail}

\* tokens.filter(token => token.customerEmail?.toLowerCase() ===
\* customerEmail.toLowerCase()): a token without customerEmail never passes.
customerTokens(tokens, customerEmail) ==
  {t \in tokens : /\ t.customerEmail # <<>>
                  /\ toLowerCase(t.customerEmail[1]) = toLowerCase(customerEmail)}

\* One entry of the downloads list; downloadUrl ends in the token string.
Download(token) ==
  [downloadUrl   |-> token.token,
   expiresAt     |-> token.expiresAt,
   maxDownloads  |-> token.maxDownloads,
   downloadCount |-> token.downloadCount,
   createdAt     |-> token.createdAt]

\* GET of the order-downloads route. email is searchParams.get("email"):
\* <<>> when the parameter is absent, <<e>> otherwise, e possibly empty.
orderDownloads(table, orderId, email, failure) ==
  IF email = <<>> \/ email[1] = <<>>
  THEN [storeAccess |-> FALSE, status |-> 400,
        error |-> "Customer email is required", downloads |-> <<>>]
  ELSE LET tokensResult == listByOrder(table, orderId, failure)
       IN  IF tokensResult.result # "ok"
           THEN [storeAccess |-> TRUE, status |-> 500,
                 error |-> "Failed to fetch download tokens", downloads |-> <<>>]
           ELSE [storeAccess |-> TRUE, status |-> 200, error |-> "",
                 downloads |->
                   <<{Download(t) : t \in customerTokens(tokensResult.value, email[1])}>>]

\* --------------------------------------------------------- Redemption Gate
\* Variant: !(expiryDate >= now), which an invalid date (no expiresAt) satisfies.
IsExpiredUnlessLater(token, now) ==
  LET expiryDate == NewDate(token.expiresAt)
  IN  ~(expiryDate # Undefined /\ expiryDate[1] >= now)

\* expiryDate < now, with expiryDate = new Date(token.expiresAt).
IsExpired(token, now) == DateLess(NewDate(token.expiresAt), Num(now))

\* Variant: token.downloadCount > token.maxDownloads.
LimitReachedOffByOne(token) ==
  token.maxDownloads # Undefined /\ token.downloadCount > token.maxDownloads[1]

\* Variant: a token with no maxDownloads is given a limit of one download.
LimitReachedDefaultOne(token) ==
  token.downloadCount >= (IF token.maxDownloads = Undefined THEN 1 ELSE token.maxDownloads[1])

\* token.downloadCount >= token.maxDownloads; false when maxDownloads is undefined.
LimitReached(token) ==
  token.maxDownloads # Undefined /\ token.downloadCount >= token.maxDownloads[1]

\* The checks of the handler after the lookup, in the order of the code.
\* (Variants: the limit checked before the expiry; the limit not checked.)
GateChecksLimitFirst(token, now) ==
  IF token.maxDownloads # Undefined /\ token.downloadCount >= token.maxDownloads[1]
  THEN "LimitExceeded"
  ELSE IF DateLess(NewDate(token.expiresAt), Num(now)) THEN "Expired"
  ELSE "pass"

GateChecksNoLimit(token, now) ==
  IF DateLess(NewDate(token.expiresAt), Num(now)) THEN "Expired" ELSE "pass"

GateChecks(token, now) ==
  IF IsExpired(token, now) THEN "Expired"
  ELSE IF LimitReached(token) THEN "LimitExceeded"
  ELSE "pass"

\* The downloadCount the handler reports for an authorized download
\* ("Download authorized, fetching file"): the count it read, plus one.
ReportedDownloadCount(token) == token.downloadCount + 1

\* Variant: a failed increment is fatal to the request.
AfterIncrementFatal(incrementResult) ==
  IF incrementResult = "ok" THEN "Authorized" ELSE "InternalError"

\* The handler goes on to serve the file whatever incrementDownloadCount returned.
AfterIncrement(incrementResult) == "Authorized"

\* Variant: an expired token is answered like an exhausted one.
StatusOfExpiredForbidden(outcome) ==
  CASE outcome = "InvalidFormat"    -> 401
    [] outcome = "InvalidSignature" -> 401
    [] outcome = "NotFound"         -> 404
    [] outcome = "FetchError"       -> 404
    [] outcome = "Expired"          -> 403
    [] outcome = "LimitExceeded"    -> 403
    [] OTHER                        -> 500

\* Response status of each way the handler returns before fetching the file.
StatusOf(outcome) ==
  CASE outcome = "InvalidFormat"    -> 401
    [] outcome = "InvalidSignature" -> 401
    [] outcome = "NotFound"         -> 404
    [] outcome = "FetchError"       -> 404
    [] outcome = "Expired"          -> 410
    [] outcome = "LimitExceeded"    -> 403
    [] OTHER                        -> 500

\* The JSON body of the response: a key that is absent is <<>>. token is the
\* item the lookup returned, <<>> when the handler returned before it had one.
NoBody ==
  [error |-> "", expiresAt |-> <<>>, downloadCount |-> <<>>, maxDownloads |-> <<>>,
   file |-> <<>>]

ResponseBody(outcome, token) ==
  CASE outcome \in {"InvalidFormat", "InvalidSignature"} ->
         [NoBody EXCEPT !.error = "Invalid or malformed token"]
    [] outcome \in {"NotFound", "FetchError"} ->
         [NoBody EXCEPT !.error = "Token not found"]
    [] outcome = "Expired" ->
         [NoBody EXCEPT !.error = "Token has expired",
                        !.expiresAt = <<token[1].expiresAt>>]
    [] outcome = "LimitExceeded" ->
         [NoBody EXCEPT !.error = "Download limit exceeded",
                        !.downloadCount = Num(token[1].downloadCount),
                        !.maxDownloads = token[1].maxDownloads]
    [] OTHER -> [NoBody EXCEPT !.error = "Internal server error"]

\* ------------------------------------------------------------------ Issuer
Url1 == <<"https", "//x/file.pdf">>
Url2 == <<"https", "//x/part2.pdf">>
OrderId1 == <<"ORD-1">>
OrderId2 == <<"ORD-2">>

\* Email addresses, character by character; the second differs from the first
\* in case only.
Email1 == <<"a", "@", "x">>
Email1Upper == <<"A", "@", "x">>
Email2 == <<"b", "@", "x">>

\* Paid-order events: the digital lines of the order with their resolved files.
Orders ==
  { [id |-> OrderId1, userEmail |-> <<Email1>>, lines |-> <<>>],
    [id |-> OrderId1, userEmail |-> <<Email1>>, lines |-> <<[product |-> "P1", files |-> <<Url1>>]>>],
    [id |-> OrderId1, userEmail |-> <<Email1>>, lines |-> <<[product |-> "P1", files |-> <<Url1, Url2>>]>>] }

\* Paid-order events in which a file is listed twice: within one line, and by
\* two lines whose products resolve to the same file.
RepeatedFileOrders ==
  { [id |-> OrderId1, userEmail |-> <<Email1>>, lines |-> <<[product |-> "P1", files |-> <<Url1, Url1>>]>>],
    [id |-> OrderId1, userEmail |-> <<Email1>>, lines |-> <<[product |-> "P1", files |-> <<Url1>>],
                                  [product |-> "P2", files |-> <<Url1>>]>>] }

\* Paid-order events with two lines of one product (two of its variants).
SameProductOrders ==
  { [id |-> OrderId1, userEmail |-> <<Email1>>, lines |-> <<[product |-> "P1", files |-> <<Url1>>],
                                  [product |-> "P1", files |-> <<Url2>>]>>],
    [id |-> OrderId1, userEmail |-> <<Email1>>, lines |-> <<[product |-> "P1", files |-> <<Url1, Url2>>],
                                  [product |-> "P1", files |-> <<Url2>>]>>] }

\* Paid-order events with a digital line for which getFileUrls finds no file.
FilelessOrders ==
  { [id |-> OrderId1, userEmail |-> <<Email1>>, lines |-> <<[product |-> "P1", files |-> <<>>]>>] }

\* fileMeta.name: value.name, or the text of the URL after its last '/'; here
\* the last ':'-field of the URL.
FileNameOf(url) == url[Len(url)]

\* Variant: fileIndex is the loop variable itself, counted from 0.
LineJobsZeroBased(line) ==
  [i \in 1..Len(line.files) |->
     [fileUrl    |-> line.files[i],
      fileGroup  |-> line.product \o "-files",
      fileIndex  |-> i - 1,
      totalFiles |-> Len(line.files),
      fileName   |-> FileNameOf(line.files[i])]]

\* The (line, file) iterations of the two nested loops, in order.
LineJobs(line) ==
  [i \in 1..Len(line.files) |->
     [fileUrl    |-> line.files[i],
      fileGroup  |-> line.product \o "-files",
      fileIndex  |-> i,
      totalFiles |-> Len(line.files),
      fileName   |-> FileNameOf(line.files[i])]]

RECURSIVE FileJobs(_)
FileJobs(lines) ==
  IF lines = <<>> THEN <<>> ELSE LineJobs(Head(lines)) \o FileJobs(Tail(lines))

\* JavaScript truthiness of an optional number.
Truthy(n) == n # Undefined /\ n[1] # 0

createDownloadToken(data, createdAt) ==
  [token          |-> data.token,
   orderId        |-> data.orderId,
   customerEmail  |-> data.customerEmail,
   fileUrl        |-> data.fileUrl,
   expiresAt      |-> data.expiresAt,
   maxDownloads   |-> data.maxDownloads,
   downloadCount  |-> 0,
   createdAt      |-> createdAt,
   lastAccessedAt |-> Undefined,
   fileGroup      |-> data.fileGroup,
   fileIndex      |-> data.fileIndex,
   totalFiles     |-> data.totalFiles,
   fileName       |-> data.fileName]

\* Variant: the token string is signed over "never" whatever expiry is stored.
IssuedTokenSignedNever(orderId, customerEmail, job, expiryDate, maxDownloads, createdAt) ==
  createDownloadToken(
    [token        |-> generateDownloadToken(orderId, job.fileUrl, <<"never">>),
     orderId      |-> orderId,
     customerEmail |-> customerEmail,
     fileUrl      |-> job.fileUrl,
     expiresAt    |-> IF expiryDate # Undefined THEN toISOString(expiryDate[1])
                      ELSE Undefined,
     maxDownloads |-> maxDownloads,
     fileGroup    |-> job.fileGroup,
     fileIndex    |-> job.fileIndex,
     totalFiles   |-> job.totalFiles,
     fileName     |-> job.fileName],
    toISOString(createdAt))

\* The token the Issuer builds for one file of the order.
IssuedToken(orderId, customerEmail, job, expiryDate, maxDownloads, createdAt) ==
  createDownloadToken(
    [token        |-> generateDownloadToken(orderId, job.fileUrl,
                        IF expiryDate # Undefined THEN toISOString(expiryDate[1])
                        ELSE <<"never">>),
     orderId      |-> orderId,
     customerEmail |-> customerEmail,
     fileUrl      |-> job.fileUrl,
     expiresAt    |-> IF expiryDate # Undefined THEN toISOString(expiryDate[1])
                      ELSE Undefined,
     maxDownloads |-> maxDownloads,
     fileGroup    |-> job.fileGroup,
     fileIndex    |-> job.fileIndex,
     totalFiles   |-> job.totalFiles,
     fileName     |-> job.fileName],
    toISOString(createdAt))

\* Variant: the order's digital lines are not checked for being empty.
NoDigitalItemsUnchecked(digitalLines) == FALSE

\* digitalLines.length === 0
NoDigitalItems(digitalLines) == digitalLines = <<>>

\* The webhook's response to each result of execute.
WebhookResponse(result) ==
  [status  |-> 200,
   message |-> CASE result = "ok" -> "Download tokens created successfully"
                 [] result = "NoDigitalItemsError" -> "No digital items found in order"
                 [] result = "TokenGenerationError" -> "Failed to generate any download tokens"
                 [] OTHER -> ""]

\* Variant: a failed confirmation email fails the run.
AfterEmailFatal(emailResult) ==
  IF emailResult = "SendEmailError" THEN "TokenGenerationError" ELSE "ok"

\* The result of execute once tokens exist: the result of sendEmail is logged
\* and execute returns ok({tokensCreated, tokens}) either way.
AfterEmail(emailResult) == "ok"

\* emailSender.sendEmail: not called (no customer email, or email disabled),
\* ok, or err(SendEmailError); it never throws.
EmailResults == {"skipped", "ok", "SendEmailError"}

\* ------------------------------------------------------------------- state
VARIABLES
  env,         \* process configuration, read once at start-up
  now,         \* the clock
  table,       \* the DynamoDB table: token string -> item
  puts,        \* token string -> number of PutCommands the table applied to it
  req,         \* the GET /api/downloads/[token] requests
  issuer,      \* the OrderFullyPaidUseCase.execute call in progress
  issuerRuns,  \* paid-order events taken so far
  signer,      \* a token signed, altered and verified outside any request
  repo,        \* the last call made on the repository directly, and its result
  api,         \* the last GET of the order-downloads endpoint and its response
  dedup,       \* withRequestDeduplication: its cache and the requests it wraps
  apl          \* HttpsEnforcingAPL: the base APL and the last call made on it

vars ==
  <<env, now, table, puts, req, issuer, issuerRuns, signer, repo, api, dedup, apl>>

IdleRequest ==
  [pc |-> "idle", tokenParam |-> <<>>, token |-> <<>>, now |-> <<>>,
   incrementResult |-> "", outcome |-> "", status |-> 0, body |-> NoBody,
   calls |-> <<>>]

IdleIssuer ==
  [pc |-> "idle", orderId |-> <<>>, lines |-> <<>>, expiryDate |-> <<>>,
   work |-> <<>>, tokens |-> <<>>, email |-> "", result |-> "",
   customerEmail |-> <<>>]

IdleRepo ==
  [op |-> "", arg |-> <<>>, existed |-> FALSE, failure |-> "", result |-> "",
   value |-> {}]

IdleApi ==
  [pc |-> "idle", orderId |-> <<>>, email |-> <<>>, failure |-> "",
   storeAccess |-> FALSE, status |-> 0, error |-> "", downloads |-> <<>>]

IdleCall ==
  [pc |-> "idle", key |-> <<>>, now |-> 0, status |-> 0, message |-> "",
   invoked |-> FALSE, thrown |-> FALSE]

IdleDedup ==
  [now |-> 0, lastCleanup |-> 0, requestCache |-> <<>>,
   calls |-> [c \in DedupCalls |-> IdleCall]]

IdleApl == [base |-> <<>>, op |-> "", arg |-> <<>>, result |-> <<>>]

IdleSigner ==
  [pc |-> "idle", triple |-> <<>>, token |-> <<>>, presented |-> <<>>,
   how |-> "", result |-> "", parsed |-> <<>>]

Envs ==
  [DOWNLOAD_TOKEN_EXPIRY_HOURS : {Undefined, Num(1)},
   MAX_DOWNLOAD_LIMIT : {Undefined, Num(1), Num(2)}]

Init ==
  /\ env \in Envs
  /\ now = 0
  /\ table = <<>>
  /\ puts = <<>>
  /\ req = [r \in Requests |-> IdleRequest]
  /\ issuer = IdleIssuer
  /\ issuerRuns = 0
  /\ signer = IdleSigner
  /\ repo = IdleRepo
  /\ api = IdleApi
  /\ dedup = IdleDedup
  /\ apl = IdleApl

\* Token strings a client presents that the Issuer never stored: one that is not
\* two segments, one signed with another key, one authentic but never saved.
ForeignTokens ==
  LET payload == OrderId1 \o Url1 \o <<"never">>
  IN  { <<Base64(payload)>>,
        <<Base64(payload), HmacHex("attacker-key", payload)>>,
        generateDownloadToken(<<"ORD-9">>, Url1, <<"never">>) }

Tick ==
  /\ now < MaxTime
  /\ now' = now + 1
  /\ UNCHANGED <<env, table, puts, req, issuer, issuerRuns, signer, repo, api, dedup, apl>>

\* GET, up to the first await: verifyDownloadToken, then getByToken is sent.
\* Requests are numbered in the order they arrive.
StartRequest(r, t) ==
  /\ req[r].pc = "idle"
  /\ \A q \in Requests : q < r => req[q].pc # "idle"
  /\ LET v == verifyDownloadToken(t)
     IN  req' = [req EXCEPT ![r] =
           IF v # "ok"
           THEN [@ EXCEPT !.pc = "done", !.tokenParam = t, !.outcome = v,
                          !.status = StatusOf(v), !.body = ResponseBody(v, <<>>)]
           ELSE [@ EXCEPT !.pc = "getByToken", !.tokenParam = t,
                          !.calls = <<"getByToken">>]]
  /\ UNCHANGED <<env, now, table, puts, issuer, issuerRuns, signer, repo, api, dedup, apl>>

Start(r, t) == r <= MaxRequests /\ StartRequest(r, t)

\* getByToken answers; the handler checks expiry and limit on the item it read
\* and, when both pass, sends incrementDownloadCount.
GetByTokenReturns(r) ==
  /\ req[r].pc = "getByToken"
  /\ LET tokenResult == getByToken(table, req[r].tokenParam)
     IN  req' = [req EXCEPT ![r] =
           IF tokenResult = <<>>
           THEN [@ EXCEPT !.pc = "done", !.outcome = "NotFound",
                          !.status = StatusOf("NotFound"),
                          !.body = ResponseBody("NotFound", <<>>)]
           ELSE LET verdict == GateChecks(tokenResult[1], now)
                IN  IF verdict # "pass"
                    THEN [@ EXCEPT !.pc = "done", !.token = tokenResult,
                                   !.now = Num(now), !.outcome = verdict,
                                   !.status = StatusOf(verdict),
                                   !.body = ResponseBody(verdict, tokenResult)]
                    ELSE [@ EXCEPT !.pc = "incrementDownloadCount",
                                   !.token = tokenResult, !.now = Num(now),
                                   !.calls = Append(@, "incrementDownloadCount")]]
  /\ UNCHANGED <<env, now, table, puts, issuer, issuerRuns, signer, repo, api, dedup, apl>>

\* The GetCommand throws: getByToken returns FetchError, the handler answers 404.
GetByTokenFails(r) ==
  /\ req[r].pc = "getByToken"
  /\ req' = [req EXCEPT ![r] =
       [@ EXCEPT !.pc = "done", !.outcome = "FetchError",
                 !.status = StatusOf("FetchError"),
                 !.body = ResponseBody("FetchError", <<>>)]]
  /\ UNCHANGED <<env, now, table, puts, issuer, issuerRuns, signer, repo, api, dedup, apl>>

\* The UpdateCommand is applied by the table and answers.
IncrementReturns(r) ==
  /\ req[r].pc = "incrementDownloadCount"
  /\ table' = incrementDownloadCount(table, req[r].tokenParam, toISOString(now))
  /\ LET result == IF req[r].tokenParam \in DOMAIN table THEN "ok" ELSE "UpdateError"
     IN  req' = [req EXCEPT ![r] =
           [@ EXCEPT !.pc = "fetchFile", !.incrementResult = result,
                     !.outcome = AfterIncrement(result)]]
  /\ UNCHANGED <<env, now, puts, issuer, issuerRuns, signer, repo, api, dedup, apl>>

\* The UpdateCommand throws before it is applied: UpdateError.
IncrementFails(r) ==
  /\ req[r].pc = "incrementDownloadCount"
  /\ req' = [req EXCEPT ![r] =
       [@ EXCEPT !.pc = "fetchFile", !.incrementResult = "UpdateError",
                 !.outcome = AfterIncrement("UpdateError")]]
  /\ UNCHANGED <<env, now, table, puts, issuer, issuerRuns, signer, repo, api, dedup, apl>>

\* fetch(token.fileUrl): the file is proxied (200) or the upstream fails (502).
FetchFile(r) ==
  /\ req[r].pc = "fetchFile"
  /\ \E fetched \in BOOLEAN :
       req' = [req EXCEPT ![r] =
         [@ EXCEPT !.pc = "done",
                   !.status = IF req[r].outcome = "Authorized"
                              THEN (IF fetched THEN 200 ELSE 502)
                              ELSE StatusOf(req[r].outcome),
                   !.body = IF req[r].outcome = "Authorized"
                            THEN (IF fetched
                                  THEN [NoBody EXCEPT !.file = <<req[r].token[1].fileUrl>>]
                                  ELSE [NoBody EXCEPT !.error = "Failed to retrieve file"])
                            ELSE ResponseBody(req[r].outcome, req[r].token)]]
  /\ UNCHANGED <<env, now, table, puts, issuer, issuerRuns, signer, repo, api, dedup, apl>>

\* execute, up to the first save: the order's digital lines, one expiry for the pass.
\* Date.now() has moved on since the previous call: with expiry enabled the
\* expiry of this pass is later than the expiry of the last one.
execute(order) ==
  /\ issuer.pc = "idle"
  /\ Truthy(env.DOWNLOAD_TOKEN_EXPIRY_HOURS) /\ issuer.expiryDate # Undefined
       => issuer.expiryDate[1] < now + env.DOWNLOAD_TOKEN_EXPIRY_HOURS[1]
  /\ issuerRuns' = issuerRuns + 1
  /\ issuer' =
       IF NoDigitalItems(order.lines)
       THEN [IdleIssuer EXCEPT !.orderId = order.id, !.result = "NoDigitalItemsError"]
       ELSE [pc         |-> "saving",
             orderId    |-> order.id,
             lines      |-> order.lines,
             expiryDate |-> IF Truthy(env.DOWNLOAD_TOKEN_EXPIRY_HOURS)
                            THEN Num(now + env.DOWNLOAD_TOKEN_EXPIRY_HOURS[1])
                            ELSE Undefined,
             work       |-> FileJobs(order.lines),
             tokens     |-> <<>>,
             email      |-> "",
             customerEmail |-> order.userEmail,
             result     |-> ""]
  /\ UNCHANGED <<env, now, table, puts, req, signer, repo, api, dedup, apl>>

IssuerStart(order) == issuerRuns < MaxIssuerRuns /\ execute(order)

\* One iteration of the file loop whose save succeeds.
IssuerSaveOk ==
  /\ issuer.pc = "saving"
  /\ issuer.work # <<>>
  /\ LET downloadToken == IssuedToken(issuer.orderId, issuer.customerEmail, Head(issuer.work),
                            issuer.expiryDate, env.MAX_DOWNLOAD_LIMIT, now)
         key == downloadToken.token
     IN  /\ table' = save(table, downloadToken)
         /\ puts' = [k \in DOMAIN puts \cup {key} |->
                       IF k = key
                       THEN (IF k \in DOMAIN puts THEN puts[k] + 1 ELSE 1)
                       ELSE puts[k]]
         /\ issuer' = [issuer EXCEPT !.work = Tail(@),
                                     !.tokens = Append(@, downloadToken)]
  /\ UNCHANGED <<env, now, req, issuerRuns, signer, repo, api, dedup, apl>>

\* Variant: a save that returns SaveError ends the run with an error.
IssuerSaveAborts ==
  /\ issuer.pc = "saving"
  /\ issuer.work # <<>>
  /\ issuer' = [issuer EXCEPT !.pc = "idle", !.work = <<>>,
                              !.result = "TokenGenerationError"]
  /\ UNCHANGED <<env, now, table, puts, req, issuerRuns, signer, repo, api, dedup, apl>>

\* One iteration whose save returns SaveError: logged, the file is skipped.
IssuerSaveFails ==
  /\ issuer.pc = "saving"
  /\ issuer.work # <<>>
  /\ issuer' = [issuer EXCEPT !.work = Tail(@)]
  /\ UNCHANGED <<env, now, table, puts, req, issuerRuns, signer, repo, api, dedup, apl>>

\* After the loops: TokenGenerationError when no token was created, else ok.
IssuerFinish ==
  /\ issuer.pc = "saving"
  /\ issuer.work = <<>>
  /\ \E emailResult \in EmailResults :
       issuer' = IF issuer.tokens = <<>>
                 THEN [issuer EXCEPT !.pc = "idle", !.result = "TokenGenerationError"]
                 ELSE [issuer EXCEPT !.pc = "idle", !.email = emailResult,
                                     !.result = AfterEmail(emailResult)]
  /\ UNCHANGED <<env, now, table, puts, req, issuerRuns, signer, repo, api, dedup, apl>>

Next ==
  \/ Tick
  \/ \E r \in Requests : \E t \in DOMAIN table \cup ForeignTokens : Start(r, t)
  \/ \E r \in Requests : GetByTokenReturns(r)
  \/ \E r \in Requests : GetByTokenFails(r)
  \/ \E r \in Requests : IncrementReturns(r)
  \/ \E r \in Requests : IncrementFails(r)
  \/ \E r \in Requests : FetchFile(r)
  \/ \E order \in Orders : IssuerStart(order)
  \/ IssuerSaveOk
  \/ IssuerSaveFails
  \/ IssuerFinish

Spec == Init /\ [][Next]_vars

\* ------------------------------------------- redemptions one after another
\* The table after one Issuer run for an order with one file, expiry disabled
\* and a download limit configured; then redemptions only, each completing
\* before the next starts, every store call succeeding.
SeqEnvs ==
  [DOWNLOAD_TOKEN_EXPIRY_HOURS : {Undefined},
   MAX_DOWNLOAD_LIMIT : {Num(m) : m \in 1..(MaxRedemptions - 1)}]

SeqIssued(e) ==
  IssuedToken(OrderId1, <<Email1>>, LineJobs([product |-> "P1", files |-> <<Url1>>])[1],
              Undefined, e.MAX_DOWNLOAD_LIMIT, 0)

InitSeq ==
  /\ env \in SeqEnvs
  /\ now = 0
  /\ table = save(<<>>, SeqIssued(env))
  /\ puts = [k \in {SeqIssued(env).token} |-> 1]
  /\ req = [r \in Requests |-> IdleRequest]
  /\ issuer = [IdleIssuer EXCEPT !.orderId = OrderId1, !.result = "ok",
                                 !.lines = <<[product |-> "P1", files |-> <<Url1>>]>>,
                                 !.email = "skipped",
                                 !.customerEmail = <<Email1>>,
                                 !.tokens = <<SeqIssued(env)>>]
  /\ issuerRuns = 1
  /\ signer = IdleSigner
  /\ repo = IdleRepo
  /\ api = IdleApi
  /\ dedup = IdleDedup
  /\ apl = IdleApl

SeqStart(r, t) ==
  /\ \A q \in Requests : req[q].pc \in {"idle", "done"}
  /\ r <= MaxRedemptions
  /\ StartRequest(r, t)

NextSeq ==
  \/ Tick
  \/ \E r \in Requests : \E t \in DOMAIN table \cup ForeignTokens : SeqStart(r, t)
  \/ \E r \in Requests : GetByTokenReturns(r)
  \/ \E r \in Requests : IncrementReturns(r)
  \/ \E r \in Requests : FetchFile(r)

SpecSeq == InitSeq /\ [][NextSeq]_vars

\* ------------------------------------------------ re-delivered paid orders
\* The webhook is delivered again for an order already processed, and orders
\* may list a file more than once; Issuer runs and redemptions complete one
\* after another and every store call of a redemption succeeds.
ReplayStart(order) ==
  /\ issuerRuns < MaxReplays
  /\ \A q \in Requests : req[q].pc \in {"idle", "done"}
  /\ execute(order)

ReplayRedeem(r, t) ==
  /\ issuer.pc = "idle"
  /\ \A q \in Requests : req[q].pc \in {"idle", "done"}
  /\ Start(r, t)

NextReplay ==
  \/ Tick
  \/ \E r \in Requests : \E t \in DOMAIN table : ReplayRedeem(r, t)
  \/ \E r \in Requests : GetByTokenReturns(r)
  \/ \E r \in Requests : IncrementReturns(r)
  \/ \E r \in Requests : FetchFile(r)
  \/ \E order \in Orders \cup RepeatedFileOrders \cup FilelessOrders :
       ReplayStart(order)
  \/ IssuerSaveOk
  \/ IssuerSaveFails
  \/ IssuerFinish

SpecReplay == Init /\ [][NextReplay]_vars

\* ------------------------------------------------------ HttpsEnforcingAPL
\* The wrapper called on a base APL that may already hold auth data under
\* http:// and https:// URLs.
AplUrls == {<<"http", "//shop/graphql/">>, <<"https", "//shop/graphql/">>,
            <<"https", "//other/graphql/">>}

AppIds == {"app1", "app2"}

InitApl ==
  /\ env = [DOWNLOAD_TOKEN_EXPIRY_HOURS |-> Undefined, MAX_DOWNLOAD_LIMIT |-> Undefined]
  /\ now = 0
  /\ table = <<>>
  /\ puts = <<>>
  /\ req = [r \in Requests |-> IdleRequest]
  /\ issuer = IdleIssuer
  /\ issuerRuns = 0
  /\ signer = IdleSigner
  /\ repo = IdleRepo
  /\ api = IdleApi
  /\ dedup = IdleDedup
  /\ \E stored \in SUBSET AplUrls : \E appId \in [stored -> AppIds] :
       apl = [IdleApl EXCEPT
                !.base = [u \in stored |-> [saleorApiUrl |-> u, appId |-> appId[u]]]]

AplGet(url) ==
  /\ apl' = [apl EXCEPT !.op = "get", !.arg = url,
                        !.result = AplGetResult(apl.base, url)]
  /\ UNCHANGED <<env, now, table, puts, req, issuer, issuerRuns, signer, repo, api, dedup>>

AplSet(authData) ==
  /\ apl' = [apl EXCEPT !.base = AplSetResult(@, authData), !.op = "set",
                        !.arg = authData.saleorApiUrl, !.result = <<>>]
  /\ UNCHANGED <<env, now, table, puts, req, issuer, issuerRuns, signer, repo, api, dedup>>

AplDelete(url) ==
  /\ apl' = [apl EXCEPT !.base = AplDeleteResult(@, url), !.op = "delete",
                        !.arg = url, !.result = <<>>]
  /\ UNCHANGED <<env, now, table, puts, req, issuer, issuerRuns, signer, repo, api, dedup>>

NextApl ==
  \/ \E url \in AplUrls : AplGet(url)
  \/ \E url \in AplUrls : \E appId \in AppIds :
       AplSet([saleorApiUrl |-> url, appId |-> appId])
  \/ \E url \in AplUrls : AplDelete(url)

SpecApl == InitApl /\ [][NextApl]_vars

\* ------------------------------------------------- request deduplication
\* Requests through withRequestDeduplication; the wrapper runs without
\* interruption up to the call of the handler, the handler takes any time,
\* and the interval fires every CLEANUP_INTERVAL.
CleanupDue ==
  /\ dedup.now > dedup.lastCleanup
  /\ dedup.now % CLEANUP_INTERVAL = 0

DedupTick ==
  /\ dedup.now < MaxDedupTicks * (CACHE_TTL \div 2)
  /\ ~CleanupDue
  /\ dedup' = [dedup EXCEPT !.now = @ + CACHE_TTL \div 2]
  /\ UNCHANGED <<env, now, table, puts, req, issuer, issuerRuns, signer, repo, api, apl>>

Cleanup ==
  /\ CleanupDue
  /\ dedup' = [dedup EXCEPT !.lastCleanup = dedup.now,
                            !.requestCache = CleanedUp(@, dedup.now)]
  /\ UNCHANGED <<env, now, table, puts, req, issuer, issuerRuns, signer, repo, api, apl>>

\* The wrapper from its start to a response or to the call of the handler.
DedupArrive(c, payload) ==
  /\ dedup.calls[c].pc = "idle"
  /\ \A d \in DedupCalls : d < c => dedup.calls[d].pc # "idle"
  /\ LET key == deduplicationKey(payload)
         cache == dedup.requestCache
     IN  dedup' =
           IF payload.sourceObjectId = <<>> \/ payload.transactionId = <<>>
           THEN [dedup EXCEPT !.calls[c] =
                   [@ EXCEPT !.pc = "handler", !.now = dedup.now, !.invoked = TRUE]]
           ELSE IF key \in DOMAIN cache /\ cache[key].processing
           THEN [dedup EXCEPT !.calls[c] =
                   [@ EXCEPT !.pc = "done", !.key = <<key>>, !.now = dedup.now,
                             !.status = 409,
                             !.message = "Request is already being processed"]]
           ELSE IF key \in DOMAIN cache /\ RecentlyProcessed(cache[key], dedup.now)
           THEN [dedup EXCEPT !.calls[c] =
                   [@ EXCEPT !.pc = "done", !.key = <<key>>, !.now = dedup.now,
                             !.status = 200,
                             !.message = "Request already processed successfully"]]
           ELSE [dedup EXCEPT
                   !.requestCache =
                     CacheSet(@, key, [timestamp |-> dedup.now, processing |-> TRUE]),
                   !.calls[c] =
                     [@ EXCEPT !.pc = "handler", !.key = <<key>>, !.now = dedup.now,
                               !.invoked = TRUE]]
  /\ UNCHANGED <<env, now, table, puts, req, issuer, issuerRuns, signer, repo, api, apl>>

\* The handler resolves: the entry is set to done with the arrival time.
HandlerReturns(c) ==
  /\ dedup.calls[c].pc = "handler"
  /\ dedup' =
       [dedup EXCEPT
          !.requestCache =
            IF dedup.calls[c].key = <<>> THEN @
            ELSE CacheSet(@, dedup.calls[c].key[1],
                          [timestamp |-> dedup.calls[c].now, processing |-> FALSE]),
          !.calls[c] = [@ EXCEPT !.pc = "done", !.status = 200, !.message = "handled"]]
  /\ UNCHANGED <<env, now, table, puts, req, issuer, issuerRuns, signer, repo, api, apl>>

\* The handler rejects: the entry is deleted and the error is thrown again.
HandlerThrows(c) ==
  /\ dedup.calls[c].pc = "handler"
  /\ dedup' =
       [dedup EXCEPT
          !.requestCache =
            IF dedup.calls[c].key = <<>> THEN @
            ELSE CacheDelete(@, dedup.calls[c].key[1]),
          !.calls[c] = [@ EXCEPT !.pc = "done", !.thrown = TRUE]]
  /\ UNCHANGED <<env, now, table, puts, req, issuer, issuerRuns, signer, repo, api, apl>>

NextDedup ==
  \/ DedupTick
  \/ Cleanup
  \/ \E c \in DedupCalls : \E payload \in DedupPayloads : DedupArrive(c, payload)
  \/ \E c \in DedupCalls : HandlerReturns(c)
  \/ \E c \in DedupCalls : HandlerThrows(c)

InitDedup ==
  /\ env = [DOWNLOAD_TOKEN_EXPIRY_HOURS |-> Undefined, MAX_DOWNLOAD_LIMIT |-> Undefined]
  /\ now = 0
  /\ table = <<>>
  /\ puts = <<>>
  /\ req = [r \in Requests |-> IdleRequest]
  /\ issuer = IdleIssuer
  /\ issuerRuns = 0
  /\ signer = IdleSigner
  /\ repo = IdleRepo
  /\ api = IdleApi
  /\ dedup = IdleDedup
  /\ apl = IdleApl

SpecDedup == InitDedup /\ [][NextDedup]_vars

\* ------------------------------------------- the order-downloads endpoint
\* The endpoint called on a table that holds tokens of two orders, saved with
\* and without a customer email.
CustomerEmails == {<<>>, <<Email1>>, <<Email1Upper>>, <<Email2>>}

EmailParams == {<<>>, <<<<>>>>, <<Email1>>, <<Email1Upper>>, <<Email2>>}

ListedTokens ==
  {IssuedToken(o, e, LineJobs([product |-> "P1", files |-> <<Url1, Url2>>])[1],
               Undefined, Undefined, 0) : o \in {OrderId1, OrderId2}, e \in CustomerEmails}
    \cup {IssuedToken(OrderId1, e,
                      LineJobs([product |-> "P1", files |-> <<Url1, Url2>>])[2],
                      Undefined, Undefined, 0) : e \in CustomerEmails}

RECURSIVE SaveAll(_, _)
SaveAll(t, tokens) ==
  IF tokens = {} THEN t
  ELSE LET x == CHOOSE y \in tokens : TRUE
       IN  SaveAll(save(t, x), tokens \ {x})

InitOrderDownloads ==
  /\ env = [DOWNLOAD_TOKEN_EXPIRY_HOURS |-> Undefined, MAX_DOWNLOAD_LIMIT |-> Undefined]
  /\ now = 0
  /\ \E saved \in SUBSET ListedTokens :
       /\ \A x, y \in saved : x.token = y.token => x = y
       /\ table = SaveAll(<<>>, saved)
       /\ puts = [k \in {x.token : x \in saved} |-> 1]
  /\ req = [r \in Requests |-> IdleRequest]
  /\ issuer = IdleIssuer
  /\ issuerRuns = 0
  /\ signer = IdleSigner
  /\ repo = IdleRepo
  /\ api = IdleApi
  /\ dedup = IdleDedup
  /\ apl = IdleApl

OrderDownloadsGet(orderId, email, failure) ==
  /\ LET response == orderDownloads(table, orderId, email, failure)
     IN  api' = [pc |-> "done", orderId |-> orderId, email |-> email,
                 failure |-> failure, storeAccess |-> response.storeAccess,
                 status |-> response.status, error |-> response.error,
                 downloads |-> response.downloads]
  /\ UNCHANGED <<env, now, table, puts, req, issuer, issuerRuns, signer, repo, dedup, apl>>

NextOrderDownloads ==
  \E orderId \in {OrderId1, OrderId2} : \E email \in EmailParams :
    \E failure \in QueryFailures : OrderDownloadsGet(orderId, email, failure)

SpecOrderDownloads == InitOrderDownloads /\ [][NextOrderDownloads]_vars

\* The Issuer by itself: paid-order events of every shape, delivered one
\* after the other, each save succeeding or failing.
NextIssuer ==
  \/ Tick
  \/ \E order \in Orders \cup RepeatedFileOrders \cup SameProductOrders
                    \cup FilelessOrders :
       ReplayStart(order)
  \/ IssuerSaveOk
  \/ IssuerSaveFails
  \/ IssuerFinish

SpecIssuer == Init /\ [][NextIssuer]_vars

\* A token already issued and redeemed one request after another, with the
\* paid-order event of its order delivered once more between redemptions.
ReplaySeqRedeem(r, t) ==
  /\ issuer.pc = "idle"
  /\ SeqStart(r, t)

NextReplaySeq ==
  \/ Tick
  \/ \E r \in Requests : \E t \in DOMAIN table : ReplaySeqRedeem(r, t)
  \/ \E r \in Requests : GetByTokenReturns(r)
  \/ \E r \in Requests : IncrementReturns(r)
  \/ \E r \in Requests : FetchFile(r)
  \/ \E order \in Orders : ReplayStart(order)
  \/ IssuerSaveOk
  \/ IssuerSaveFails
  \/ IssuerFinish

SpecReplaySeq == InitSeq /\ [][NextReplaySeq]_vars

\* ------------------------------------------------------ the Signer by itself
\* generateDownloadToken applied to a triple; the token is then presented to
\* verifyDownloadToken and parseDownloadToken as issued, with one character
\* replaced, with another signature segment, or structurally broken.
UrlWithPort == <<"https", "//x", "8080/f.pdf">>
OrderIds == {OrderId1, <<"T3JkZXI6MQ==">>}

Triples ==
  [orderId : OrderIds, fileUrl : {Url1, Url2, UrlWithPort},
   expiresAt : {toISOString(t) : t \in Times} \cup {<<"never">>}]

\* A segment that is not the output of an encoder: n bytes of other text.
Text(n) == [enc |-> "text", key |-> "", msg |-> <<>>, len |-> n, alt |-> 0]
EmptySegment == Text(0)

\* One byte of field i of the decoded payload becomes another byte, not ':'.
ChangeField(fields, i) == [fields EXCEPT ![i] = "~" \o @]

\* The ':' after field i becomes another byte: fields i and i+1 are one field.
MergeFields(fields, i) ==
  SubSeq(fields, 1, i - 1) \o <<fields[i] \o "~" \o fields[i + 1]>>
    \o SubSeq(fields, i + 2, Len(fields))

\* A byte of field i becomes ':': the field is split in two, and the part
\* before its first byte or after its last byte is empty.
SplitField(fields, i, at) ==
  SubSeq(fields, 1, i - 1)
    \o (CASE at = "first" -> <<"", fields[i]>>
           [] at = "last"  -> <<fields[i], "">>
           [] OTHER        -> <<fields[i], "~">>)
    \o SubSeq(fields, i + 1, Len(fields))

\* The payload segment with one character replaced by another character of the
\* base64 alphabets. Buffer.from(text, "base64") also reads '-' as '+' and '_'
\* as '/', and ignores the bits of the last character that belong to no byte:
\* some replacements decode to the same bytes (alt 1).
ReplaceInPayload(seg) ==
  {[seg EXCEPT !.msg = ChangeField(@, i)] : i \in DOMAIN seg.msg}
    \cup {[seg EXCEPT !.msg = MergeFields(@, i)] : i \in 1..(Len(seg.msg) - 1)}
    \cup {[seg EXCEPT !.msg = SplitField(@, i, at)] :
            i \in DOMAIN seg.msg, at \in {"first", "middle", "last"}}
    \cup {[seg EXCEPT !.alt = 1]}

\* The signature segment with one character replaced: by another one-byte
\* character, or by a character that UTF-8 encodes in two bytes.
ReplaceInSignature(seg) ==
  {[seg EXCEPT !.alt = 1], [seg EXCEPT !.alt = 1, !.len = @ + 1]}

\* Every token string that differs from the token in one character of its
\* payload segment or of its signature segment; a '.' put in place of a
\* character cuts the segment in two.
Replacements(token) ==
  {<<p, token[2]>> : p \in ReplaceInPayload(token[1])}
    \cup {<<token[1], g>> : g \in ReplaceInSignature(token[2])}
    \cup {<<Text(1), Text(token[1].len - 2), token[2]>>,
          <<token[1], Text(1), Text(token[2].len - 2)>>}

\* Signature segments that are not the HMAC of the payload under the server's
\* key: the HMAC under another key, and texts shorter and longer than 64.
ForgedSignatures(payload) ==
  {HmacHex("attacker-key", payload), Text(1), Text(63), Text(65)}

\* Token strings that are not two non-empty segments around a payload of three
\* non-empty fields; the short payloads are signed with the server's key.
BrokenTokens(token) ==
  LET two == <<"ORD-1", "never">>
      hollow == <<"ORD-1", "", "never">>
  IN  { <<token[1]>>,
        <<token[1], token[2], token[2]>>,
        <<EmptySegment, token[2]>>,
        <<token[1], EmptySegment>>,
        <<Base64(two), HmacHex(SECRET_KEY, two)>>,
        <<Base64(hollow), HmacHex(SECRET_KEY, hollow)>> }

InitSigner ==
  /\ env = [DOWNLOAD_TOKEN_EXPIRY_HOURS |-> Undefined, MAX_DOWNLOAD_LIMIT |-> Undefined]
  /\ now = 0
  /\ table = <<>>
  /\ puts = <<>>
  /\ req = [r \in Requests |-> IdleRequest]
  /\ issuer = IdleIssuer
  /\ issuerRuns = 0
  /\ \E triple \in Triples :
       signer = [IdleSigner EXCEPT !.pc = "input", !.triple = triple]
  /\ repo = IdleRepo
  /\ api = IdleApi
  /\ dedup = IdleDedup
  /\ apl = IdleApl

Generate ==
  /\ signer.pc = "input"
  /\ LET token == generateDownloadToken(signer.triple.orderId, signer.triple.fileUrl,
                                        signer.triple.expiresAt)
     IN  signer' = [signer EXCEPT !.pc = "signed", !.token = token,
                                  !.presented = token, !.how = "issued"]
  /\ UNCHANGED <<env, now, table, puts, req, issuer, issuerRuns, repo, api, dedup, apl>>

Present(how, token) ==
  /\ signer.pc = "signed"
  /\ signer.how = "issued"
  /\ signer' = [signer EXCEPT !.presented = token, !.how = how]
  /\ UNCHANGED <<env, now, table, puts, req, issuer, issuerRuns, repo, api, dedup, apl>>

Replace ==
  /\ signer.pc = "signed"
  /\ \E t \in Replacements(signer.token) : Present("replaced", t)

Forge ==
  /\ signer.pc = "signed"
  /\ \E g \in ForgedSignatures(signer.token[1].msg) :
       Present("forged", <<signer.token[1], g>>)

Break ==
  /\ signer.pc = "signed"
  /\ \E t \in BrokenTokens(signer.token) : Present("broken", t)

\* verifyDownloadToken(presented); a thrown exception would be "throws".
Verify ==
  /\ signer.pc = "signed"
  /\ signer' = [signer EXCEPT !.pc = "verified",
                               !.result = verifyDownloadToken(signer.presented)]
  /\ UNCHANGED <<env, now, table, puts, req, issuer, issuerRuns, repo, api, dedup, apl>>

\* parseDownloadToken(presented), kept as <<returned value>>.
Parse ==
  /\ signer.pc = "signed"
  /\ signer' = [signer EXCEPT !.pc = "parsed",
                               !.parsed = <<parseDownloadToken(signer.presented)>>]
  /\ UNCHANGED <<env, now, table, puts, req, issuer, issuerRuns, repo, api, dedup, apl>>

NextSigner ==
  \/ Generate
  \/ Replace
  \/ Forge
  \/ Break
  \/ Verify
  \/ Parse

SpecSigner == InitSigner /\ [][NextSigner]_vars

\* -------------------------------------------------- the repository by itself
\* The methods of the repository called directly, in any order, on a table
\* that starts empty.
StoreTokens ==
  {IssuedToken(OrderId1, <<Email1>>, job, Undefined, m, 0) :
     job \in Range(LineJobs([product |-> "P1", files |-> <<Url1, Url2>>])),
     m \in {Undefined, Num(1)}}
    \cup {IssuedToken(OrderId2, <<Email1>>,
                      LineJobs([product |-> "P2", files |-> <<Url1>>])[1],
                      Undefined, Undefined, 0)}

StoreKeys == {t.token : t \in StoreTokens}

Called(op, arg, existed, failure, answer) ==
  repo' = [op |-> op, arg |-> arg, existed |-> existed, failure |-> failure,
           result |-> answer.result, value |-> answer.value]

RepoSave(t) ==
  /\ table' = save(table, t)
  /\ puts' = [k \in DOMAIN puts \cup {t.token} |->
                IF k = t.token
                THEN (IF k \in DOMAIN puts /\ puts[k] < MaxStoreCount
                      THEN puts[k] + 1
                      ELSE IF k \in DOMAIN puts THEN puts[k] ELSE 1)
                ELSE puts[k]]
  /\ Called("save", t.token, t.token \in DOMAIN table, "none",
            [result |-> "ok", value |-> {t}])
  /\ UNCHANGED <<env, now, req, issuer, issuerRuns, signer, api, dedup, apl>>

RepoGetByToken(k) ==
  /\ Called("getByToken", k, k \in DOMAIN table, "none",
            IF getByToken(table, k) = <<>>
            THEN [result |-> "NotFoundError", value |-> {}]
            ELSE [result |-> "ok", value |-> {getByToken(table, k)[1]}])
  /\ UNCHANGED <<env, now, table, puts, req, issuer, issuerRuns, signer, api, dedup, apl>>

RepoIncrement(k) ==
  /\ k \in DOMAIN table => table[k].downloadCount < MaxStoreCount
  /\ table' = incrementDownloadCount(table, k, toISOString(now))
  /\ Called("incrementDownloadCount", k, k \in DOMAIN table, "none",
            incrementDownloadCountResult(table, k, toISOString(now)))
  /\ UNCHANGED <<env, now, puts, req, issuer, issuerRuns, signer, api, dedup, apl>>

RepoDelete(k) ==
  /\ table' = delete(table, k)
  /\ puts' = [j \in DOMAIN puts \ {k} |-> puts[j]]
  /\ Called("delete", k, k \in DOMAIN table, "none", [result |-> "ok", value |-> {}])
  /\ UNCHANGED <<env, now, req, issuer, issuerRuns, signer, api, dedup, apl>>

RepoListByOrder(orderId, failure) ==
  /\ Called("listByOrder", orderId, QueryItems(table, orderId) # {}, failure,
            listByOrder(table, orderId, failure))
  /\ UNCHANGED <<env, now, table, puts, req, issuer, issuerRuns, signer, api, dedup, apl>>

FetcherListByOrder(orderId, failure) ==
  /\ Called("fetchDownloadTokensByOrderId", orderId, QueryItems(table, orderId) # {},
            failure, fetchDownloadTokensByOrderId(table, orderId, failure))
  /\ UNCHANGED <<env, now, table, puts, req, issuer, issuerRuns, signer, api, dedup, apl>>

NextStore ==
  \/ \E t \in StoreTokens : RepoSave(t)
  \/ \E k \in StoreKeys : RepoGetByToken(k)
  \/ \E k \in StoreKeys : RepoIncrement(k)
  \/ \E k \in StoreKeys : RepoDelete(k)
  \/ \E o \in {OrderId1, OrderId2} : \E f \in QueryFailures : RepoListByOrder(o, f)
  \/ \E o \in {OrderId1, OrderId2} : \E f \in QueryFailures : FetcherListByOrder(o, f)

InitStore ==
  /\ env = [DOWNLOAD_TOKEN_EXPIRY_HOURS |-> Undefined, MAX_DOWNLOAD_LIMIT |-> Undefined]
  /\ now = 0
  /\ table = <<>>
  /\ puts = <<>>
  /\ req = [r \in Requests |-> IdleRequest]
  /\ issuer = IdleIssuer
  /\ issuerRuns = 0
  /\ signer = IdleSigner
  /\ repo = IdleRepo
  /\ api = IdleApi
  /\ dedup = IdleDedup
  /\ apl = IdleApl

SpecStore == InitStore /\ [][NextStore]_vars

\* ================================================================== claims
Denials == {"InvalidFormat", "InvalidSignature", "NotFound", "Expired", "LimitExceeded"}

\* The token is two segments, a payload of at least three fields and its HMAC
\* under the server's key.
Authentic(t) ==
  /\ Len(t) = 2
  /\ t[1].enc = "base64"
  /\ Len(t[1].msg) >= 3
  /\ t[2] = HmacHex(SECRET_KEY, t[1].msg)

\* The requests whose lookup found the item of token string t.
LookedUp(t) == {r \in Requests : req[r].tokenParam = t /\ req[r].token # <<>>}

\* The item a request read has an expiresAt earlier / later than its check time.
ReadExpiresBefore(r) ==
  \E e \in IsoTimes : req[r].token[1].expiresAt = toISOString(e) /\ e < req[r].now[1]
ReadExpiresAfter(r) ==
  \E e \in IsoTimes : req[r].token[1].expiresAt = toISOString(e) /\ e > req[r].now[1]

\* The item a request read was at or over its download limit.
ReadAtLimit(r) ==
  /\ req[r].token[1].maxDownloads # <<>>
  /\ req[r].token[1].downloadCount >= req[r].token[1].maxDownloads[1]

\* C1: every stored token that has maxDownloads set has
\* downloadCount <= maxDownloads, in every reachable state.
C1_CountWithinLimit ==
  \A t \in DOMAIN table :
    table[t].maxDownloads # Undefined
      => table[t].downloadCount <= table[t].maxDownloads[1]

\* C2: the redemptions of one stored, unexpiring token with maxDownloads = 1
\* that was saved once (downloadCount 0), once all have completed without a
\* store failure: exactly one ended Authorized, all the others LimitExceeded.
C2_ExactlyOneAuthorized ==
  \A t \in DOMAIN table :
    ( /\ table[t].maxDownloads = Num(1)
      /\ table[t].expiresAt = Undefined
      /\ puts[t] = 1
      /\ LookedUp(t) # {}
      /\ \A r \in Requests : req[r].tokenParam = t => req[r].pc = "done"
      /\ \A r \in LookedUp(t) : req[r].incrementResult # "UpdateError" )
    => /\ Cardinality({r \in LookedUp(t) : req[r].outcome = "Authorized"}) = 1
       /\ \A r \in LookedUp(t) : req[r].outcome \in {"Authorized", "LimitExceeded"}

\* C3: when incrementDownloadCount is applied to a token already at its limit,
\* the record is left unchanged and the call does not return success (nor
\* NotFound, nor Update failure).
C3_ConditionalIncrement ==
  [][\A r \in Requests :
       ( /\ req[r].pc = "incrementDownloadCount"
         /\ req'[r].pc # "incrementDownloadCount"
         /\ req'[r].incrementResult # "UpdateError"
         /\ req[r].tokenParam \in DOMAIN table
         /\ LimitReached(table[req[r].tokenParam]) )
       => /\ table' = table
          /\ req'[r].incrementResult \notin {"ok", "NotFoundError", "UpdateError"}]_vars

\* The position of request r among the redemptions of its token string.
Nth(r) == Cardinality({q \in 1..r : req[q].tokenParam = req[r].tokenParam})

\* The redemptions of token string t that have got past the increment.
Incremented(t) ==
  {r \in Requests : req[r].tokenParam = t /\ req[r].pc \in {"fetchFile", "done"}
                    /\ req[r].incrementResult # ""}

\* C4: redeeming a token with maxDownloads = m and no expiry one request after
\* another, every store call succeeding: the first m redemptions end Authorized,
\* downloadCount is then m, and every later one ends LimitExceeded.
C4_SequentialLimit ==
  \A t \in DOMAIN table :
    LET m == table[t].maxDownloads[1]
        n == Cardinality(Incremented(t))
    IN  /\ table[t].downloadCount = (IF n < m THEN n ELSE m)
        /\ \A r \in Requests :
             (req[r].tokenParam = t /\ req[r].pc = "done")
               => /\ Nth(r) <= m => req[r].outcome = "Authorized"
                  /\ Nth(r) > m => /\ req[r].outcome = "LimitExceeded"
                                   /\ table[t].downloadCount = m

C4_Witness ==
  \E r \in Requests :
    /\ req[r].pc = "done"
    /\ req[r].tokenParam \in DOMAIN table
    /\ table[req[r].tokenParam].maxDownloads = Num(2)
    /\ Nth(r) = 3
    /\ req[r].outcome = "LimitExceeded"
    /\ table[req[r].tokenParam].downloadCount = 2

C6_ExpiryCheck ==
  \A r \in Requests :
    req[r].token # <<>>
      => /\ ReadExpiresBefore(r) => req[r].outcome = "Expired"
         /\ ReadExpiresAfter(r) => req[r].outcome # "Expired"
         /\ req[r].token[1].expiresAt = Undefined => req[r].outcome # "Expired"

C6_Witness ==
  \E r \in Requests :
    /\ req[r].token # <<>>
    /\ ReadExpiresBefore(r)
    /\ req[r].outcome = "Expired"
    /\ req[r].status = 410

\* C7: a request whose token is not authentic ends InvalidFormat or
\* InvalidSignature and issues no Token Store operation.
C7_NoStoreAccessOnBadToken ==
  \A r \in Requests :
    (req[r].pc # "idle" /\ ~Authentic(req[r].tokenParam))
      => /\ req[r].pc = "done"
         /\ req[r].outcome \in {"InvalidFormat", "InvalidSignature"}
         /\ req[r].calls = <<>>

C7_Witness ==
  \E r, q \in Requests :
    /\ req[r].outcome = "InvalidSignature" /\ req[r].calls = <<>>
    /\ req[q].outcome = "InvalidFormat" /\ req[q].calls = <<>>

\* C8: the checks run in the order signature, lookup, expiry, limit, increment
\* and the first failing one decides: an unauthentic token is denied for its
\* signature or format before any lookup, an item read expired ends Expired
\* also when it is at its limit, and the limit decides only after the expiry.
C8_CheckOrder ==
  \A r \in Requests :
    req[r].outcome # ""
      => /\ ~Authentic(req[r].tokenParam)
              => req[r].outcome \in {"InvalidFormat", "InvalidSignature"}
         /\ req[r].outcome \in {"NotFound", "FetchError"}
              => req[r].calls = <<"getByToken">>
         /\ req[r].token # <<>>
              => /\ ReadExpiresBefore(r) => req[r].outcome = "Expired"
                 /\ (~ReadExpiresBefore(r) /\ ReadAtLimit(r))
                      => req[r].outcome = "LimitExceeded"
                 /\ (~ReadExpiresBefore(r) /\ ~ReadAtLimit(r))
                      => /\ req[r].outcome = "Authorized"
                         /\ req[r].calls = <<"getByToken", "incrementDownloadCount">>

\* A token both expired and at its download limit ends Expired.
C8_Witness ==
  \E r \in Requests :
    /\ req[r].token # <<>>
    /\ ReadExpiresBefore(r)
    /\ ReadAtLimit(r)
    /\ req[r].outcome = "Expired"

\* C9: the step in which a redemption ends in a denial leaves the table
\* unchanged and the request has sent no incrementDownloadCount; a request
\* that read downloadCount >= maxDownloads never sends one.
C9_DenialLeavesStore ==
  [][\A r \in Requests :
       req'[r] # req[r]
         => /\ req'[r].outcome \in Denials
                 => /\ table' = table
                    /\ "incrementDownloadCount" \notin Range(req'[r].calls)
            /\ (req'[r].token # <<>> /\ ReadAtLimit(r)')
                 => /\ table' = table
                    /\ "incrementDownloadCount" \notin Range(req'[r].calls)]_vars

C9_Witness ==
  \E r \in Requests :
    /\ req[r].outcome = "LimitExceeded"
    /\ req[r].calls = <<"getByToken">>
    /\ table[req[r].tokenParam].downloadCount = req[r].token[1].downloadCount
    /\ table[req[r].tokenParam].lastAccessedAt = req[r].token[1].lastAccessedAt

\* C10: a redemption whose incrementDownloadCount call returned an error is
\* still Authorized: it goes on to fetch the file and answers as a redemption
\* whose increment succeeded does (200, or 502 when the upstream fetch fails).
C10_IncrementFailureAuthorized ==
  \A r \in Requests :
    req[r].incrementResult = "UpdateError"
      => /\ req[r].outcome = "Authorized"
         /\ req[r].pc \in {"fetchFile", "done"}
         /\ req[r].pc = "done" => req[r].status \in {200, 502}

C10_Witness ==
  \E r \in Requests :
    /\ req[r].incrementResult = "UpdateError"
    /\ req[r].pc = "done"
    /\ req[r].outcome = "Authorized"
    /\ req[r].status = 200

\* ---------------------------------------------------------------------------
\* C11: a record is created with downloadCount 0, and afterwards no step - an
\* Issuer run (the same paid order processed again included), a redemption, a
\* store operation - lowers the downloadCount of a stored record; the only step
\* that changes it is the increment of a redemption.
C11_CountNeverDecreases ==
  [][\A t \in DOMAIN table' :
       IF t \in DOMAIN table
       THEN /\ table'[t].downloadCount >= table[t].downloadCount
            /\ table'[t].downloadCount # table[t].downloadCount
                 => \E r \in Requests : /\ req[r].pc = "incrementDownloadCount"
                                        /\ req'[r].pc = "fetchFile"
                                        /\ req[r].tokenParam = t
       ELSE table'[t].downloadCount = 0]_vars

\* ---------------------------------------------------------------------------
\* The fields of an item that are fixed when the record is created.
CreationFields(item) ==
  [token |-> item.token, orderId |-> item.orderId, fileUrl |-> item.fileUrl,
   expiresAt |-> item.expiresAt, maxDownloads |-> item.maxDownloads,
   createdAt |-> item.createdAt]

\* C12: once a record exists, no step removes it or changes any of its fields
\* other than downloadCount and lastAccessedAt; createdAt is never rewritten.
C12_CreationFieldsKept ==
  [][\A t \in DOMAIN table :
       /\ t \in DOMAIN table'
       /\ CreationFields(table'[t]) = CreationFields(table[t])]_vars

\* ---------------------------------------------------------------------------
\* C17: when an Issuer run has returned k tokens, their token strings are
\* pairwise distinct and the store holds k separate records for them, also when
\* the order lists the same file more than once.
C17_TokenPerIssuedFile ==
  issuer.pc = "idle" /\ issuer.result = "ok" =>
    LET issued == issuer.tokens
    IN  /\ \A i, j \in DOMAIN issued : i # j => issued[i].token # issued[j].token
        /\ \A i \in DOMAIN issued : issued[i].token \in DOMAIN table
        /\ Cardinality({issued[i].token : i \in DOMAIN issued} \cap DOMAIN table)
             = Len(issued)

\* ---------------------------------------------------------------------------
\* C13: for every valid (orderId, fileUrl, expiresAt), the token returned by
\* generateDownloadToken is accepted by verifyDownloadToken, whatever number of
\* ':' the fileUrl or the expiry timestamp contain.
C13_VerifyAcceptsGenerated ==
  signer.pc = "verified" /\ signer.how = "issued" => signer.result = "ok"

C13_Witness ==
  /\ signer.pc = "verified"
  /\ signer.how = "issued"
  /\ signer.triple.fileUrl = UrlWithPort
  /\ signer.triple.expiresAt = toISOString(MaxTime)
  /\ signer.result = "ok"

\* ---------------------------------------------------------------------------
\* C14: parseDownloadToken applied to the token generateDownloadToken returns
\* for a triple gives back exactly that orderId, fileUrl and expiresAt, for an
\* ISO-8601 expiry as well as for the sentinel "never".
C14_ParseReturnsTriple ==
  signer.pc = "parsed" /\ signer.how = "issued"
    => signer.parsed = <<(<<signer.triple>>)>>

\* ---------------------------------------------------------------------------
\* C15: a generated token with any single character of its payload segment or
\* of its signature segment replaced is answered InvalidSignature by
\* verifyDownloadToken: never accepted, and no exception leaves the function.
C15_ReplacementRejected ==
  signer.pc = "verified" /\ signer.how = "replaced"
    => signer.result = "InvalidSignature"

\* ---------------------------------------------------------------------------
\* Two non-empty segments, the first a payload of at least three non-empty fields.
WellFormed(t) ==
  /\ Len(t) = 2
  /\ t[1].len > 0
  /\ t[2].len > 0
  /\ LET fields == DecodeFields(t[1])
     IN  Cardinality({i \in DOMAIN fields : fields[i] # ""}) >= 3

\* C16: verifyDownloadToken answers InvalidFormat exactly when the token is
\* not well formed, and InvalidSignature for every well-formed token whose
\* signature segment is not the HMAC of its payload, whatever the length of
\* that segment.
C16_FormatOrSignature ==
  signer.pc = "verified" =>
    /\ signer.result = "InvalidFormat" <=> ~WellFormed(signer.presented)
    /\ WellFormed(signer.presented)
         /\ signer.presented[2] # HmacHex(SECRET_KEY, DecodeFields(signer.presented[1]))
         => signer.result = "InvalidSignature"

\* ---------------------------------------------------------------------------
\* The status the endpoint gives each denial, and that no two denial kinds
\* other than the two token-verification failures share a status.
DenialStatusFixed(r) ==
  /\ req[r].outcome \in {"InvalidFormat", "InvalidSignature"} => req[r].status = 401
  /\ req[r].outcome = "NotFound" => req[r].status = 404
  /\ req[r].outcome = "Expired" => req[r].status = 410
  /\ req[r].outcome = "LimitExceeded" => req[r].status = 403
  /\ \A q \in Requests :
       /\ req[q].pc = "done"
       /\ req[r].outcome \in Denials /\ req[q].outcome \in Denials
       /\ req[r].status = req[q].status
       => \/ req[r].outcome = req[q].outcome
          \/ {req[r].outcome, req[q].outcome} = {"InvalidFormat", "InvalidSignature"}

C19_FetchErrorIs500 ==
  \A r \in Requests : req[r].pc = "done" =>
    /\ req[r].outcome = "FetchError" => req[r].status = 500
    /\ req[r].status = 404 => req[r].outcome = "NotFound"

\* ---------------------------------------------------------------------------
\* Records that differ from the one a redemption read in what they store.
OtherRecords(token) ==
  {[token EXCEPT !.downloadCount = @ + 1]}
    \cup {[token EXCEPT !.expiresAt = toISOString(t)] : t \in Times}

\* C20: the response to a denied redemption depends on the kind of denial
\* only: had the record read been any other record denied for the same reason,
\* the status and the body of the response would be the same.
C20_DenialBodyByKindOnly ==
  \A r \in Requests :
    req[r].pc = "done" /\ req[r].outcome \in {"Expired", "LimitExceeded"} =>
      \A other \in OtherRecords(req[r].token[1]) :
        GateChecks(other, req[r].now[1]) = req[r].outcome
          => /\ StatusOf(GateChecks(other, req[r].now[1])) = req[r].status
             /\ ResponseBody(req[r].outcome, <<other>>) = req[r].body

\* ---------------------------------------------------------------------------
\* The number of files of the lines before line k.
RECURSIVE FilesBefore(_, _)
FilesBefore(lines, k) ==
  IF k = 1 THEN 0 ELSE FilesBefore(lines, k - 1) + Len(lines[k - 1].files)

\* The run is over and every save of it succeeded.
AllSaved ==
  /\ issuer.pc = "idle"
  /\ issuer.result = "ok"
  /\ Len(issuer.tokens) = Len(FileJobs(issuer.lines))

\* C21: when every save succeeded, a line that resolves to n files has exactly
\* n tokens in the result, in the order of its file list, with fileIndex 1..n,
\* totalFiles n and one fileGroup; every token created has
\* 1 <= fileIndex <= totalFiles.
C21_TokensPerLine ==
  /\ \A i \in DOMAIN issuer.tokens :
       /\ 1 <= issuer.tokens[i].fileIndex
       /\ issuer.tokens[i].fileIndex <= issuer.tokens[i].totalFiles
  /\ AllSaved =>
       \A k \in DOMAIN issuer.lines :
         LET files == issuer.lines[k].files
             first == FilesBefore(issuer.lines, k)
         IN  \A i \in DOMAIN files :
               /\ issuer.tokens[first + i].fileUrl = files[i]
               /\ issuer.tokens[first + i].fileIndex = i
               /\ issuer.tokens[first + i].totalFiles = Len(files)
               /\ issuer.tokens[first + i].fileGroup = issuer.tokens[first + 1].fileGroup
               /\ issuer.tokens[first + i].token \in DOMAIN table

C21_Witness ==
  /\ AllSaved
  /\ Len(issuer.lines) = 1
  /\ issuer.lines[1].files = <<Url1, Url2>>
  /\ Len(issuer.tokens) = 2
  /\ issuer.tokens[2].fileIndex = 2

\* ---------------------------------------------------------------------------
\* A run over an order with digital lines has returned.
RunReturned ==
  issuer.pc = "idle" /\ issuer.result \in {"ok", "TokenGenerationError"}

C23_NoDigitalItemsIsNoOp ==
  /\ [](/\ issuer.result = "NoDigitalItemsError" =>
             issuer.pc = "idle" /\ issuer.lines = <<>> /\ issuer.tokens = <<>>
        /\ issuer.pc = "idle" /\ issuerRuns > 0 /\ issuer.lines = <<>>
             => issuer.result = "NoDigitalItemsError"
        /\ issuer.result = "TokenGenerationError" => issuer.lines # <<>>
        /\ WebhookResponse("NoDigitalItemsError")
             # WebhookResponse("TokenGenerationError"))
  /\ [][issuerRuns' # issuerRuns /\ issuer'.result = "NoDigitalItemsError" =>
          table' = table /\ puts' = puts]_vars

C23_Witness ==
  /\ issuerRuns = 1
  /\ issuer.pc = "idle"
  /\ issuer.result = "NoDigitalItemsError"
  /\ table = <<>>

\* ---------------------------------------------------------------------------
\* C24: when sending the confirmation email returned an error, the run still
\* returns ok with every token it created, and each of them is in the table.
C24_EmailFailureKeepsTokens ==
  /\ [](issuer.pc = "idle" /\ issuer.email = "SendEmailError" =>
          /\ issuer.result = "ok"
          /\ issuer.tokens # <<>>
          /\ \A i \in DOMAIN issuer.tokens : issuer.tokens[i].token \in DOMAIN table)
  /\ [][issuer.pc = "saving" /\ issuer'.email = "SendEmailError" =>
          /\ table' = table /\ puts' = puts
          /\ issuer'.tokens = issuer.tokens
          /\ \A i \in DOMAIN issuer.tokens :
               table[issuer.tokens[i].token].token = issuer.tokens[i].token]_vars

C24_Witness ==
  /\ issuer.pc = "idle"
  /\ issuer.email = "SendEmailError"
  /\ Len(issuer.tokens) = 2
  /\ Cardinality(DOMAIN table) = 2


\* C25: listByOrder returns success with an empty list, never an error, both
\* when the order has no tokens and when the secondary index is unavailable.
C25_ListByOrderNeverFails ==
  repo.op = "listByOrder" /\ (~repo.existed \/ repo.failure # "none") =>
    repo.result = "ok" /\ repo.value = {}

\* C26: incrementDownloadCount for a token string that is not in the store
\* (never saved, or deleted) returns the NotFound error and creates no record.
C26_IncrementMissingIsNotFound ==
  repo.op = "incrementDownloadCount" /\ ~repo.existed =>
    repo.result = "NotFoundError" /\ repo.arg \notin DOMAIN table

\* The value of a field of a record, and nothing when the record has no
\* such field.
FieldOf(rec, f) == IF f \in DOMAIN rec THEN <<rec[f]>> ELSE <<>>

GroupingFields == {"fileGroup", "fileIndex", "totalFiles", "fileName"}

\* C28: after save(t), getByToken(t.token) returns a record equal to t in
\* every field, the grouping metadata included, and the record that
\* incrementDownloadCount returns has the grouping metadata too.
C28_StoreRoundTrip ==
  /\ repo.op = "save" =>
       \A t \in repo.value :
         /\ getByToken(table, repo.arg) # <<>>
         /\ \A f \in DOMAIN t : FieldOf(getByToken(table, repo.arg)[1], f) = <<t[f]>>
  /\ repo.op = "incrementDownloadCount" /\ repo.result = "ok" =>
       \A t \in repo.value : GroupingFields \subseteq DOMAIN t


\* C27: a stored, authentic, unexpired token with no maxDownloads is never
\* denied LimitExceeded: every redemption that read its record unexpired is
\* Authorized, whatever downloadCount it read.
C27_NoLimitNeverExceeded ==
  \A r \in Requests :
    (req[r].token # <<>> /\ req[r].token[1].maxDownloads = Undefined)
      => /\ req[r].outcome # "LimitExceeded"
         /\ ~IsExpired(req[r].token[1], req[r].now[1])
              => /\ req[r].outcome \in {"", "Authorized"}
                 /\ req[r].pc \in {"incrementDownloadCount", "fetchFile", "done"}
                 /\ req[r].pc \in {"fetchFile", "done"} => req[r].outcome = "Authorized"

C27_Witness ==
  \E r \in Requests :
    /\ req[r].pc = "done"
    /\ Authentic(req[r].tokenParam)
    /\ req[r].token # <<>>
    /\ req[r].token[1].maxDownloads = Undefined
    /\ req[r].token[1].downloadCount >= 1
    /\ req[r].outcome = "Authorized"


\* C29: for a stored token with maxDownloads = m, the number of redemptions
\* that end Authorized never exceeds m, however the requests interleave and
\* also when incrementDownloadCount calls fail.
C29_AuthorizedWithinLimit ==
  \A t \in DOMAIN table :
    table[t].maxDownloads # Undefined
      => Cardinality({r \in Requests : /\ req[r].tokenParam = t
                                       /\ req[r].outcome = "Authorized"})
           <= table[t].maxDownloads[1]


\* C30: denial by limit is permanent: once a redemption of a token string
\* has ended LimitExceeded, no redemption of the same token string that
\* arrives later ends Authorized, whatever redemptions and Issuer runs follow.
C30_LimitDenialPermanent ==
  \A r, q \in Requests :
    (/\ r < q
     /\ req[r].pc = "done"
     /\ req[r].outcome = "LimitExceeded"
     /\ req[q].tokenParam = req[r].tokenParam)
      => req[q].outcome # "Authorized"


\* ---------------------------------------------------------------------------
\* C31: a download is consumed only when the file is delivered: a redemption
\* whose incrementDownloadCount was applied answers 200 with the file, and a
\* redemption that ends 502 has left downloadCount as it was.
C31_CountedOnlyWhenDelivered ==
  \A r \in Requests :
    req[r].pc = "done" /\ req[r].incrementResult = "ok" => req[r].status = 200


\* ---------------------------------------------------------------------------
\* C32: a successful incrementDownloadCount raises the downloadCount of the
\* token by exactly 1, sets lastAccessedAt to the time of the call, changes
\* the record of no other token and returns the updated record; the
\* Authorized redemption reports the stored fileUrl and the updated
\* downloadCount.
C32_IncrementAndReport ==
  [][\A r \in Requests :
       (req[r].pc = "incrementDownloadCount" /\ req'[r].incrementResult = "ok")
         => LET k == req[r].tokenParam
                returned == incrementDownloadCountResult(table, k, toISOString(now))
            IN  /\ table'[k].downloadCount = table[k].downloadCount + 1
                /\ table'[k].lastAccessedAt = toISOString(now)
                /\ \A j \in DOMAIN table : j # k => table'[j] = table[j]
                /\ DOMAIN table' = DOMAIN table
                /\ returned.value = {mapDbModelToDomain(table'[k])}
                /\ req[r].token[1].fileUrl = table'[k].fileUrl
                /\ \A t \in returned.value :
                     ReportedDownloadCount(req[r].token[1]) = t.downloadCount]_vars


\* ---------------------------------------------------------------------------
\* The token string signed over the orderId, fileUrl and expiresAt of a
\* record, "never" standing for no expiresAt.
SignedOver(r) ==
  generateDownloadToken(r.orderId, r.fileUrl,
                        IF r.expiresAt = Undefined THEN <<"never">> ELSE r.expiresAt)

\* C33: every record in the table is consistent with its own token string:
\* token = generateDownloadToken(orderId, fileUrl, expiresAt or "never"), and
\* it is stored under that string, so the record a redemption reads carries
\* the fileUrl and expiresAt that were signed into the token presented.
C33_RecordMatchesTokenString ==
  /\ \A k \in DOMAIN table :
       /\ table[k].token = k
       /\ table[k].token = SignedOver(table[k])
  /\ \A r \in Requests :
       req[r].token # <<>> => req[r].tokenParam = SignedOver(req[r].token[1])

C33_Witness ==
  \E r \in Requests :
    /\ req[r].pc = "done"
    /\ req[r].outcome = "Authorized"
    /\ req[r].token[1].expiresAt # Undefined
    /\ table[req[r].tokenParam].downloadCount >= 1
    /\ Cardinality(DOMAIN table) = 2


\* ---------------------------------------------------------------------------
\* C34: among the tokens created by one Issuer run, tokens that share a
\* fileGroup have pairwise distinct fileIndex values and the same totalFiles,
\* also when two lines of the order belong to the same product.
C34_GroupIndexesDistinct ==
  \A i, j \in DOMAIN issuer.tokens :
    (i # j /\ issuer.tokens[i].fileGroup = issuer.tokens[j].fileGroup)
      => /\ issuer.tokens[i].fileIndex # issuer.tokens[j].fileIndex
         /\ issuer.tokens[i].totalFiles = issuer.tokens[j].totalFiles


\* ---------------------------------------------------------------------------
\* Two addresses are equal ignoring case.
SameIgnoringCase(a, b) ==
  /\ Len(a) = Len(b)
  /\ \A i \in DOMAIN a :
       \/ a[i] = b[i]
       \/ {a[i], b[i]} \in {{"a", "A"}, {"b", "B"}}

\* The stored token belongs to the order and the customer of the request.
BelongsToCaller(item) ==
  /\ item.orderId = api.orderId
  /\ item.customerEmail # <<>>
  /\ SameIgnoringCase(item.customerEmail[1], api.email[1])

ListedUrls == IF api.downloads = <<>> THEN {} ELSE {d.downloadUrl : d \in api.downloads[1]}

EmailMissing == api.email = <<>> \/ api.email[1] = <<>>

\* C35 as stated: the endpoint lists a stored token if and only if it is of
\* the requested order and its customerEmail equals the email parameter
\* ignoring case; a request without the parameter gets 400 and the store is
\* not read.
C35_ListedIffOwned ==
  api.pc = "done" =>
    /\ EmailMissing => api.status = 400 /\ ~api.storeAccess
    /\ ~EmailMissing =>
         \A k \in DOMAIN table : k \in ListedUrls <=> BelongsToCaller(table[k])

\* C35 amended: a request without the email parameter gets 400 and the store
\* is not read; when the query of the order answers, the response is 200 and
\* lists exactly the stored tokens of the order whose customerEmail equals
\* the parameter ignoring case (a token without customerEmail never); when
\* the query fails the response is 500 and lists nothing.
C35_ListedIffOwnedWhenQueried ==
  api.pc = "done" =>
    /\ EmailMissing => api.status = 400 /\ ~api.storeAccess /\ api.downloads = <<>>
    /\ ~EmailMissing /\ api.failure = "none" =>
         /\ api.status = 200
         /\ api.downloads # <<>>
         /\ ListedUrls \subseteq DOMAIN table
         /\ \A k \in DOMAIN table : k \in ListedUrls <=> BelongsToCaller(table[k])
    /\ ~EmailMissing /\ api.failure # "none" =>
         api.status = 500 /\ api.downloads = <<>>

C35_Witness ==
  /\ api.pc = "done"
  /\ api.status = 200
  /\ api.email = <<Email1Upper>>
  /\ \E k \in ListedUrls : table[k].customerEmail = <<Email1>>
  /\ \E k \in DOMAIN table \ ListedUrls :
       table[k].orderId = api.orderId /\ table[k].customerEmail = <<Email2>>
  /\ \E k \in DOMAIN table \ ListedUrls : table[k].orderId # api.orderId


\* ---------------------------------------------------------------------------
\* Call c arrives in this step with a deduplication key.
Arrives(c) ==
  /\ dedup.calls[c].pc = "idle"
  /\ dedup'.calls[c].pc # "idle"
  /\ dedup'.calls[c].key # <<>>

\* C36: at no time are two invocations of the wrapped handler for the same
\* deduplication key in progress together, whatever the interleaving of
\* requests, handler completions and the periodic clean-up; a request that
\* arrives while one with the same key is processing gets 409 and the
\* handler is not invoked for it.
C36_OneHandlerPerKey ==
  /\ [](\A c, d \in DedupCalls :
          (/\ c # d
           /\ dedup.calls[c].pc = "handler" /\ dedup.calls[d].pc = "handler"
           /\ dedup.calls[c].key # <<>>)
            => dedup.calls[c].key # dedup.calls[d].key)
  /\ [][\A c \in DedupCalls :
          (/\ Arrives(c)
           /\ \E d \in DedupCalls : /\ d # c
                                     /\ dedup.calls[d].pc = "handler"
                                     /\ dedup.calls[d].key = dedup'.calls[c].key)
            => /\ dedup'.calls[c].status = 409
               /\ ~dedup'.calls[c].invoked]_vars

\* C37: when the handler throws, the entry of the key is removed and the
\* error is thrown again, and a request that finds no entry for its key
\* invokes the handler; when the handler returned normally, a request with
\* the same key that arrives less than CACHE_TTL after the arrival of that
\* request gets 200 "already processed" and the handler is not invoked.
C37_RetryAfterThrowReplayAfterReturn ==
  [][\A c \in DedupCalls :
       /\ (/\ dedup.calls[c].pc = "handler"
           /\ dedup'.calls[c].thrown
           /\ dedup.calls[c].key # <<>>)
            => /\ dedup.calls[c].key[1] \notin DOMAIN dedup'.requestCache
               /\ dedup'.calls[c].status = 0
       /\ (Arrives(c) /\ dedup'.calls[c].key[1] \notin DOMAIN dedup.requestCache)
            => dedup'.calls[c].invoked
       /\ (/\ Arrives(c)
           /\ \E d \in DedupCalls :
                /\ d # c
                /\ dedup.calls[d].pc = "done"
                /\ dedup.calls[d].message = "handled"
                /\ dedup.calls[d].key = dedup'.calls[c].key
                /\ dedup.now - dedup.calls[d].now < CACHE_TTL)
            => /\ dedup'.calls[c].status = 200
               /\ dedup'.calls[c].message = "Request already processed successfully"
               /\ ~dedup'.calls[c].invoked]_vars


\* ---------------------------------------------------------------------------
\* C38: after delete(u) of the HTTPS-enforcing APL has completed, get(u) and
\* get of the other scheme variant of u both return undefined, whatever the
\* base APL held, auth data stored under the http:// variant included.
C38_DeleteRemovesBothSchemes ==
  apl.op = "delete" =>
    /\ AplGetResult(apl.base, apl.arg) = <<>>
    /\ AplGetResult(apl.base, ToHttps(apl.arg)) = <<>>
    /\ AplGetResult(apl.base, ToHttp(apl.arg)) = <<>>

====
